---- MODULE Spec2Model ----
(***************************************************************************)
(* Share statistics engine of btcpool (src/src/Statistics.cc):             *)
(* WorkerShares, the StatsServer registry (workerSet_, userWorkerCount_,   *)
(* totalWorkerCount_, totalUserCount_), removeExpiredWorkers, the batched  *)
(* HTTP read and mergeWorkerStatus.                                        *)
(*                                                                         *)
(* The specifications share the definitions of the module:                 *)
(*   Spec       the registry: the ingestion thread, the sweep and the     *)
(*              wall clock;                                                *)
(*   SpecHttp   the same with the HTTP handler of /worker_status;         *)
(*   SpecWS     one WorkerShares object with its lock_, a writer and a     *)
(*              reader, statement by statement;                            *)
(*   SpecMerge  mergeWorkerStatus as a pure function of its input list;    *)
(*   SpecLoop   run(), the consume loop, the HTTP event loop, stop() and   *)
(*              the destructor (SpecLoopLive: with fairness);              *)
(*   SpecRace   StatsServer::processShare run by two callers at once.      *)
(***************************************************************************)
EXTENDS Integers, Sequences, FiniteSets, TLC

VARIABLES
  now,               \* time(nullptr), the wall clock in seconds
  ticks,             \* number of clock advances so far (bounded by MaxTicks)
  \* ---- one WorkerShares object under its lock_ (SpecWS) ----
  ws,                \* the WorkerShares object
  wsLock,            \* holder of ws.lock_: "none", "writer" or "reader"
  wpc,               \* position of the writer inside WorkerShares::processShare
  wshare,            \* the writer's argument
  rstatus,           \* the last WorkerStatus the reader obtained, or NoStatus
  rtime,             \* the value of now the reader's snapshot used
  rprefix,           \* history: ws as left by the last completed processShare
                     \*          at the moment the reader took its snapshot
  rhist,             \* history: Len(hist) at that moment
  committed,         \* history: ws as left by the last completed processShare
  hist,              \* history: the shares processShare applied, in order
  \* ---- the StatsServer registry (Spec) ----
  poolWorker,        \* poolWorker_, the pool-wide WorkerShares
  heap,              \* the WorkerShares objects alive: object id -> object
  workerSet,         \* workerSet_: WorkerKey -> object id (a shared_ptr)
  userWorkerCount,   \* userWorkerCount_: userId -> count
  totalWorkerCount,  \* totalWorkerCount_
  totalUserCount,    \* totalUserCount_
  rwlock,            \* rwlock_: [writer, readers]
  ing,               \* the ingestion thread: its position and locals
  http,              \* the HTTP handler: its position and locals
  msgs,              \* broker messages consumed so far
  sweeps,            \* calls of removeExpiredWorkers so far
  queries,           \* HTTP requests so far
  drops,             \* history: shares the gate of line 127 turned away
  \* ---- mergeWorkerStatus as a function (SpecMerge) ----
  mList,             \* the vector<WorkerStatus> to merge
  mCuts,             \* the indices after which a group of mList ends
  mWhole,            \* mergeWorkerStatus(mList), or NoStatus
  mParts,            \* the merge of the merges of the groups, or NoStatus
  \* ---- the life of the server and its consume loop (SpecLoop) ----
  running,           \* running_
  base,              \* base_: "null" or "created"
  loopexit,          \* event_base_loopexit has been asked of the event base
  mpc,               \* the thread of run() and of the destructor: its position
  cpc,               \* threadConsume_: its position in runThreadConsume
  spc,               \* the callers of stop(): caller -> position
  lastCleanTime,     \* the local lastCleanTime of runThreadConsume
  rkmessage,         \* the message the last poll returned, or NoMessage
  aborted,           \* the process has been aborted
  stopping,          \* history: stop() took effect on a Running server
  \* ---- _processShare with two callers (SpecRace) ----
  callers,           \* caller -> its position and locals in _processShare
  raced              \* history: shares processed, installs made

wsVars == <<ws, wsLock, wpc, wshare, rstatus, rtime, rprefix, rhist, committed,
           hist>>
regVars == <<poolWorker, heap, workerSet, userWorkerCount, totalWorkerCount,
            totalUserCount>>
srvVars == <<regVars, rwlock, ing, http, msgs, sweeps, queries, drops>>
mergeVars == <<mList, mCuts, mWhole, mParts>>
loopVars == <<running, base, loopexit, mpc, cpc, spc, lastCleanTime, rkmessage,
             aborted, stopping>>
raceVars == <<callers, raced>>
auxVars == <<loopVars, raceVars>>
vars == <<now, ticks, wsVars, srvVars, mergeVars, auxVars>>

----------------------------------------------------------------------------
(* Program constants.                                                      *)

\* STATS_SLIDING_WINDOW_SECONDS: the accept window size and the age limit
STATS_SLIDING_WINDOW_SECONDS == 900
\* the three accept sums of getWorkerStatus and the reject sum
LEN_1M == 60
LEN_5M == 300
LEN_15M == 900
LEN_REJECT == 15
SECONDS_PER_MINUTE == 60

(* Bounds of the model.                                                    *)
StartTime == 1000    \* the wall clock when the model starts
MaxTicks == 2        \* clock advances in one behaviour
MaxShares == 2       \* shares applied to the single WorkerShares of SpecWS
MaxMsgs == 2         \* broker messages consumed in one behaviour of Spec
MaxHttpMsgs == 1     \* broker messages consumed in one behaviour of SpecHttp
MaxSweeps == 1       \* calls of removeExpiredWorkers in one behaviour
MaxQueries == 1      \* HTTP requests in one behaviour of SpecHttp
MaxList == 3         \* snapshots in the list mergeWorkerStatus is given
MaxLoopMsgs == 1     \* shares the consume loop of SpecLoop hands to processShare
MaxRaceShares == 4   \* calls of processShare by the callers of SpecRace

\* the amounts the clock advances by, and the ages (now - timestamp) of the
\* shares that arrive: new ones and ones on the edge of the window (a share
\* on the edge is too old one tick later)
TickSteps == {1}
ShareAges == {0, 900}
ShareValues == {1, 2}
Results == {"ACCEPT", "REJECT"}
IPs == {7}

NoStatus == [none |-> TRUE]

----------------------------------------------------------------------------
(* StatsWindow<T>: a ring of windowSize buckets indexed by t mod windowSize, *)
(* each holding (lastTime, sum).  Only the buckets that were written are   *)
(* kept; a bucket never written contributes nothing.                       *)

RECURSIVE SumOver(_, _)
SumOver(f, S) ==
  IF S = {} THEN 0
  ELSE LET x == CHOOSE y \in S : TRUE IN f[x] + SumOver(f, S \ {x})

StatsWindow(windowSize) == [size |-> windowSize, slots |-> [i \in {} |-> 0]]

insert(w, t, v) ==
  LET idx == t % w.size
      old == IF idx \in DOMAIN w.slots THEN w.slots[idx]
             ELSE [lastTime |-> -1, sum |-> 0]
      new == IF old.lastTime = t
             THEN [lastTime |-> t, sum |-> old.sum + v]
             ELSE [lastTime |-> t, sum |-> v]
  IN [w EXCEPT !.slots =
        [i \in DOMAIN w.slots \cup {idx} |-> IF i = idx THEN new ELSE w.slots[i]]]

sum(w, t, k) ==
  LET inRange == {i \in DOMAIN w.slots :
                    w.slots[i].lastTime > t - k /\ w.slots[i].lastTime <= t}
  IN SumOver([i \in inRange |-> w.slots[i].sum], inRange)

----------------------------------------------------------------------------
(* WorkerShares                                                            *)

WorkerShares(workerId, userId) ==
  [workerId |-> workerId, userId |-> userId, acceptCount |-> 0,
   lastShareIP |-> 0, lastShareTime |-> 0,
   acceptShareSec |-> StatsWindow(STATS_SLIDING_WINDOW_SECONDS),
   rejectShareMin |-> StatsWindow(STATS_SLIDING_WINDOW_SECONDS \div SECONDS_PER_MINUTE)]

\* line 44: the share is older than the window, measured at time t
tooOld(share, t) == t > share.timestamp + STATS_SLIDING_WINDOW_SECONDS

\* line 49
countShare(w, share) == [w EXCEPT !.acceptCount = @ + 1]

\* line 50
insertAccept(w, share) ==
  [w EXCEPT !.acceptShareSec = insert(@, share.timestamp, share.share)]

\* a reject insert keyed by the second instead of the minute
insertReject_Seconds(w, share) ==
  [w EXCEPT !.rejectShareMin = insert(@, share.timestamp, share.share)]

\* line 52
insertReject(w, share) ==
  [w EXCEPT !.rejectShareMin =
     insert(@, share.timestamp \div SECONDS_PER_MINUTE, share.share)]

\* lines 55-56
stampShare(w, share) ==
  [w EXCEPT !.lastShareIP = share.ip, !.lastShareTime = share.timestamp]

\* WorkerShares::processShare as one step under lock_, its clock read being t
processShare(w, share, t) ==
  IF tooOld(share, t) THEN w
  ELSE IF share.result = "ACCEPT"
       THEN stampShare(insertAccept(countShare(w, share), share), share)
       ELSE stampShare(insertReject(w, share), share)

\* WorkerShares::getWorkerStatus, its clock read being t
getWorkerStatus(w, t) ==
  [accept1m  |-> sum(w.acceptShareSec, t, LEN_1M),
   accept5m  |-> sum(w.acceptShareSec, t, LEN_5M),
   accept15m |-> sum(w.acceptShareSec, t, LEN_15M),
   reject15m |-> sum(w.rejectShareMin, t \div SECONDS_PER_MINUTE, LEN_REJECT),
   acceptCount   |-> w.acceptCount,
   lastShareIP   |-> w.lastShareIP,
   lastShareTime |-> w.lastShareTime]

\* an expiry test that is off by one
isExpired_OffByOne(w, t) == w.lastShareTime + STATS_SLIDING_WINDOW_SECONDS <= t

\* WorkerShares::isExpired, its clock read being t
isExpired(w, t) == w.lastShareTime + STATS_SLIDING_WINDOW_SECONDS < t

----------------------------------------------------------------------------
(* The wall clock.                                                         *)

Tick ==
  /\ ticks < MaxTicks
  /\ \E d \in TickSteps : now' = now + d
  /\ ticks' = ticks + 1
  /\ UNCHANGED <<wsVars, srvVars, mergeVars, auxVars>>

InitOneWorkerShares ==
  /\ ws = WorkerShares(1, 1)
  /\ wsLock = "none" /\ wpc = "idle"
  /\ wshare = [timestamp |-> 0, ip |-> 0, share |-> 0, result |-> "ACCEPT"]
  /\ rstatus = NoStatus /\ rtime = 0
  /\ rprefix = WorkerShares(1, 1) /\ rhist = 0
  /\ committed = WorkerShares(1, 1)
  /\ hist = <<>>

----------------------------------------------------------------------------
(* The registry of StatsServer.                                            *)

\* A 64-bit workerId is kept as its two 32-bit halves (value = hi * 2^32 + lo),
\* so that the conversion to int32_t of line 184 is what the code computes:
\* the low half.  W1 is worker 1, W2 is worker 2^32.
W0 == [hi |-> 0, lo |-> 0]
W1 == [hi |-> 0, lo |-> 1]
W2 == [hi |-> 1, lo |-> 0]
WorkerIds == {W1, W2}
Users == {1}

\* (int32_t) of an int64_t: the low 32 bits
Int32(workerId) == workerId.lo

WorkerKey(userId, workerId) == [userId |-> userId, workerId |-> workerId]

Null == [null |-> TRUE]       \* a shared_ptr holding nothing (as a local)
End  == [end |-> TRUE]        \* workerSet_.end()
NullPtr == 0                  \* a shared_ptr holding nothing (as an object id)
NoShare == [timestamp |-> 0, userId |-> 0, workerHashId |-> W0, ip |-> 0,
            share |-> 0, result |-> "ACCEPT"]

ZeroStatus ==
  [accept1m |-> 0, accept5m |-> 0, accept15m |-> 0, reject15m |-> 0,
   acceptCount |-> 0, lastShareIP |-> 0, lastShareTime |-> 0]

\* what a read through a dangling pointer yields
Garbage == [garbage |-> TRUE]

Range(f) == {f[x] : x \in DOMAIN f}
MapPut(f, k, v) == [x \in DOMAIN f \cup {k} |-> IF x = k THEN v ELSE f[x]]
MapDel(f, k) == [x \in DOMAIN f \ {k} |-> f[x]]
\* std::map::operator[] as a read: the value, 0 for a key it has to create
MapGet(f, k) == IF k \in DOMAIN f THEN f[k] ELSE 0
EmptyMap == [x \in {} |-> 0]

\* the shares the broker can deliver at time t (workerHashId 0 is not valid)
RegSharesAt(t) ==
  [timestamp : {t - a : a \in ShareAges}, userId : Users,
   workerHashId : WorkerIds \cup {W0}, ip : IPs, share : {1},
   result : Results]

\* the shares delivered while the HTTP handler is watched (SpecHttp)
HttpSharesAt(t) ==
  [timestamp : {t - a : a \in ShareAges}, userId : Users,
   workerHashId : {W1}, ip : IPs, share : {1}, result : {"ACCEPT"}]

\* Share::isValid
isValid(share) == share.workerHashId # W0

\* the objects the HTTP handler's ptrs vector keeps alive
HttpRefs(h) == {h.ptrs[i] : i \in DOMAIN h.ptrs} \ {NullPtr}

\* the end of a shared_ptr's life: the objects in h that nothing in refs
\* points to are destroyed
Release(h, refs) == [o \in DOMAIN h \cap refs |-> h[o]]

\* make_shared: a fresh object id
NewId(h) == CHOOSE n \in 1..(Cardinality(DOMAIN h) + 1) : n \notin DOMAIN h

IngIdle ==
  [pc |-> "idle", share |-> NoShare, itr1 |-> End, itr2 |-> End,
   workerShare1 |-> Null, workerShare2 |-> Null,
   todo |-> {}, expiredCnt |-> 0, sweepStart |-> 0, removed |-> {}]

HttpIdle ==
  [pc |-> "idle", userId |-> 0, keys |-> <<>>, isMerge |-> FALSE,
   ptrs |-> <<>>, status |-> <<>>, i |-> 0, rows |-> <<>>]

NoLock == [writer |-> FALSE, readers |-> {}]

\* the threads that may call stop(): a signal handler and the destructor
StopCallers == {"signal", "dtor"}

\* no message: what rkmessage holds before the first poll
Message(kind) == [kind |-> kind, lenOk |-> TRUE, share |-> NoShare]
NoMessage == Message("none")

\* lines 100 and 103: running_(true), base_(nullptr); no thread yet
InitLoop ==
  /\ running = TRUE
  /\ base = "null"
  /\ loopexit = FALSE
  /\ mpc = "constructed"
  /\ cpc = "none"
  /\ spc = [c \in StopCallers |-> "idle"]
  /\ lastCleanTime = 0
  /\ rkmessage = NoMessage
  /\ aborted = FALSE
  /\ stopping = FALSE

\* the callers of _processShare in SpecRace
Callers == {1, 2}

CallerIdle ==
  [pc |-> "idle", share |-> NoShare, itr1 |-> End, itr2 |-> End,
   workerShare1 |-> Null, workerShare2 |-> Null]

InitRace ==
  /\ callers = [p \in Callers |-> CallerIdle]
  /\ raced = [processed |-> 0, installs |-> 0]

InitServer ==
  /\ InitLoop
  /\ InitRace
  /\ poolWorker = WorkerShares(W0, 0)
  /\ heap = EmptyMap
  /\ workerSet = EmptyMap
  /\ userWorkerCount = EmptyMap
  /\ totalWorkerCount = 0
  /\ totalUserCount = 0
  /\ rwlock = NoLock
  /\ ing = IngIdle
  /\ http = HttpIdle
  /\ msgs = 0 /\ sweeps = 0 /\ queries = 0 /\ drops = 0

InitRegistry ==
  /\ InitServer
  /\ mList = <<>> /\ mCuts = {}
  /\ mWhole = NoStatus /\ mParts = NoStatus

MayRdLock == ~rwlock.writer
MayWrLock == ~rwlock.writer /\ rwlock.readers = {}

(* ---- the ingestion thread: consumeShareLog and processShare ---- *)

\* lines 278-290: a message of the right length arrives; an invalid share is
\* logged and skipped
consumeShareLog(shares, maxMsgs) ==
  /\ ing.pc = "idle" /\ msgs < maxMsgs
  /\ msgs' = msgs + 1
  /\ \E share \in shares :
       ing' = IF isValid(share)
              THEN [ing EXCEPT !.pc = "gate", !.share = share]
              ELSE ing
  /\ UNCHANGED <<now, ticks, wsVars, regVars, rwlock, http, sweeps, queries, drops,
                 mergeVars, auxVars>>

\* a gate that lets every share through
staleAtArrival_Never(share, t) == FALSE

\* line 127: the share is too old at arrival
staleAtArrival(share, t) == t > share.timestamp + STATS_SLIDING_WINDOW_SECONDS

\* lines 126-129: the freshness gate of StatsServer::processShare
processShare_gate ==
  /\ ing.pc = "gate"
  /\ IF staleAtArrival(ing.share, now)
     THEN ing' = IngIdle /\ drops' = drops + 1
     ELSE ing' = [ing EXCEPT !.pc = "pool"] /\ drops' = drops
  /\ UNCHANGED <<now, ticks, wsVars, regVars, rwlock, http, msgs, sweeps, queries,
                 mergeVars, auxVars>>

\* line 130
processShare_pool ==
  /\ ing.pc = "pool"
  /\ poolWorker' = processShare(poolWorker, ing.share, now)
  /\ ing' = [ing EXCEPT !.pc = "rdlock"]
  /\ UNCHANGED <<now, ticks, wsVars, heap, workerSet, userWorkerCount,
                 totalWorkerCount, totalUserCount, rwlock, http, msgs, sweeps,
                 queries, drops,
                 mergeVars, auxVars>>

key1(share) == WorkerKey(share.userId, share.workerHashId)
key2(share) == WorkerKey(share.userId, W0)

\* workerSet_.find(key)
find(set, key) == IF key \in DOMAIN set THEN key ELSE End

\* line 140
processShare_rdlock ==
  /\ ing.pc = "rdlock" /\ MayRdLock
  /\ rwlock' = [rwlock EXCEPT !.readers = @ \cup {"ingest"}]
  /\ ing' = [ing EXCEPT !.pc = "find"]
  /\ UNCHANGED <<now, ticks, wsVars, regVars, http, msgs, sweeps, queries, drops,
                 mergeVars, auxVars>>

\* lines 141-143
processShare_find ==
  /\ ing.pc = "find"
  /\ ing' = [ing EXCEPT !.pc = "proc1",
                        !.itr1 = find(workerSet, key1(ing.share)),
                        !.itr2 = find(workerSet, key2(ing.share))]
  /\ rwlock' = [rwlock EXCEPT !.readers = @ \ {"ingest"}]
  /\ UNCHANGED <<now, ticks, wsVars, regVars, http, msgs, sweeps, queries, drops,
                 mergeVars, auxVars>>

\* lines 147-152
processShare_key1 ==
  /\ ing.pc = "proc1"
  /\ IF ing.itr1 # End
     THEN /\ heap' = [heap EXCEPT ![workerSet[ing.itr1]] =
                        processShare(@, ing.share, now)]
          /\ ing' = [ing EXCEPT !.pc = "proc2"]
     ELSE /\ ing' = [ing EXCEPT !.pc = "proc2",
                       !.workerShare1 =
                          processShare(WorkerShares(ing.share.workerHashId,
                                                    ing.share.userId),
                                       ing.share, now)]
          /\ heap' = heap
  /\ UNCHANGED <<now, ticks, wsVars, poolWorker, workerSet, userWorkerCount,
                 totalWorkerCount, totalUserCount, rwlock, http, msgs, sweeps,
                 queries, drops,
                 mergeVars, auxVars>>

\* lines 154-159, and the test of line 161
processShare_key2 ==
  /\ ing.pc = "proc2"
  /\ IF ing.itr2 # End
     THEN /\ heap' = [heap EXCEPT ![workerSet[ing.itr2]] =
                        processShare(@, ing.share, now)]
          /\ ing' = IF ing.workerShare1 # Null
                    THEN [ing EXCEPT !.pc = "wrlock"]
                    ELSE IngIdle
     ELSE /\ ing' = [ing EXCEPT !.pc = "wrlock",
                       !.workerShare2 =
                          processShare(WorkerShares(ing.share.workerHashId,
                                                    ing.share.userId),
                                       ing.share, now)]
          /\ heap' = heap
  /\ UNCHANGED <<now, ticks, wsVars, poolWorker, workerSet, userWorkerCount,
                 totalWorkerCount, totalUserCount, rwlock, http, msgs, sweeps,
                 queries, drops,
                 mergeVars, auxVars>>

\* line 162
processShare_wrlock ==
  /\ ing.pc = "wrlock" /\ MayWrLock
  /\ rwlock' = [rwlock EXCEPT !.writer = TRUE]
  /\ ing' = [ing EXCEPT !.pc = "install"]
  /\ UNCHANGED <<now, ticks, wsVars, regVars, http, msgs, sweeps, queries, drops,
                 mergeVars, auxVars>>

\* The registry as one value: what the code under the writer lock works on.
Registry ==
  [heap |-> heap, workerSet |-> workerSet, userWorkerCount |-> userWorkerCount,
   totalWorkerCount |-> totalWorkerCount, totalUserCount |-> totalUserCount]

\* workerSet_[key] = obj
assign(reg, key, obj) ==
  LET id == NewId(reg.heap)
  IN [reg EXCEPT !.heap = MapPut(@, id, obj), !.workerSet = MapPut(@, key, id)]

\* lines 164-166
installWorker(reg, key, obj) ==
  [assign(reg, key, obj) EXCEPT
     !.totalWorkerCount = @ + 1,
     !.userWorkerCount = MapPut(@, key.userId, MapGet(@, key.userId) + 1)]

\* an install that forgets totalUserCount_++
installUser_NoCount(reg, key, obj) == assign(reg, key, obj)

\* lines 169-170
installUser(reg, key, obj) ==
  [assign(reg, key, obj) EXCEPT !.totalUserCount = @ + 1]

\* lines 163-172
processShare_install ==
  /\ ing.pc = "install"
  /\ LET r1 == IF ing.workerShare1 # Null
               THEN installWorker(Registry, key1(ing.share), ing.workerShare1)
               ELSE Registry
         r2 == IF ing.workerShare2 # Null
               THEN installUser(r1, key2(ing.share), ing.workerShare2)
               ELSE r1
     IN /\ heap' = Release(r2.heap, Range(r2.workerSet) \cup HttpRefs(http))
        /\ workerSet' = r2.workerSet
        /\ userWorkerCount' = r2.userWorkerCount
        /\ totalWorkerCount' = r2.totalWorkerCount
        /\ totalUserCount' = r2.totalUserCount
  /\ rwlock' = [rwlock EXCEPT !.writer = FALSE]
  /\ ing' = IngIdle
  /\ UNCHANGED <<now, ticks, wsVars, poolWorker, http, msgs, sweeps, queries, drops,
                 mergeVars, auxVars>>

(* ---- removeExpiredWorkers, run by the ingestion thread ---- *)

\* lines 177-179
removeExpiredWorkers_begin ==
  /\ ing.pc = "idle" /\ sweeps < MaxSweeps /\ MayWrLock
  /\ sweeps' = sweeps + 1
  /\ rwlock' = [rwlock EXCEPT !.writer = TRUE]
  /\ ing' = [ing EXCEPT !.pc = "sweep", !.todo = DOMAIN workerSet,
                        !.expiredCnt = 0, !.sweepStart = now, !.removed = {}]
  /\ UNCHANGED <<now, ticks, wsVars, regVars, http, msgs, queries, drops,
                 mergeVars, auxVars>>

\* lines 188-193: the counters of an expired entry
expireCounters(reg, userId, workerId) ==
  IF workerId = 0
  THEN [reg EXCEPT !.totalUserCount = @ - 1]
  ELSE [reg EXCEPT !.totalWorkerCount = @ - 1,
                   !.userWorkerCount = MapPut(@, userId, MapGet(@, userId) - 1)]

\* an erase that destroys the object whoever still points to it
erase_Destroy(reg, key, refs) ==
  LET set == MapDel(reg.workerSet, key)
  IN [reg EXCEPT !.workerSet = set, !.heap = Release(@, Range(set))]

\* line 196; the object lives on while a handler's ptrs holds it
erase(reg, key, refs) ==
  LET set == MapDel(reg.workerSet, key)
  IN [reg EXCEPT !.workerSet = set,
                 !.heap = Release(@, Range(set) \cup refs)]

\* lines 182-200: one turn of the loop, on an entry not yet visited
removeExpiredWorkers_step ==
  /\ ing.pc = "sweep"
  /\ \E key \in ing.todo :
       LET userId == key.userId
           workerId == Int32(key.workerId)
           workerShare == heap[workerSet[key]]
       IN IF isExpired(workerShare, now)
          THEN LET r == erase(expireCounters(Registry, userId, workerId),
                              key, HttpRefs(http))
               IN /\ heap' = r.heap
                  /\ workerSet' = r.workerSet
                  /\ userWorkerCount' = r.userWorkerCount
                  /\ totalWorkerCount' = r.totalWorkerCount
                  /\ totalUserCount' = r.totalUserCount
                  /\ ing' = [ing EXCEPT !.todo = @ \ {key},
                                        !.expiredCnt = @ + 1,
                                        !.removed = @ \cup {workerShare.lastShareTime}]
          ELSE /\ ing' = [ing EXCEPT !.todo = @ \ {key}]
               /\ UNCHANGED <<heap, workerSet, userWorkerCount,
                              totalWorkerCount, totalUserCount>>
  /\ UNCHANGED <<now, ticks, wsVars, poolWorker, rwlock, http, msgs, sweeps,
                 queries, drops,
                 mergeVars, auxVars>>

\* lines 202-204
removeExpiredWorkers_end ==
  /\ ing.pc = "sweep" /\ ing.todo = {}
  /\ rwlock' = [rwlock EXCEPT !.writer = FALSE]
  /\ ing' = IngIdle
  /\ UNCHANGED <<now, ticks, wsVars, regVars, http, msgs, sweeps, queries, drops,
                 mergeVars, auxVars>>

(* ---- the HTTP handler of /worker_status ---- *)

\* StatsServer::mergeWorkerStatus
RECURSIVE mergeFrom(_, _, _)
mergeFrom(workerStatus, i, s) ==
  IF i > Len(workerStatus) THEN s
  ELSE LET x == workerStatus[i]
           t == [s EXCEPT !.accept1m = @ + x.accept1m,
                          !.accept5m = @ + x.accept5m,
                          !.accept15m = @ + x.accept15m,
                          !.reject15m = @ + x.reject15m,
                          !.acceptCount = @ + x.acceptCount]
           u == IF x.lastShareTime > s.lastShareTime
                THEN [t EXCEPT !.lastShareTime = x.lastShareTime,
                               !.lastShareIP = x.lastShareIP]
                ELSE t
       IN mergeFrom(workerStatus, i + 1, u)

\* a merge in which the last of several equal lastShareTime wins
RECURSIVE mergeFromLast(_, _, _)
mergeFromLast(workerStatus, i, s) ==
  IF i > Len(workerStatus) THEN s
  ELSE LET x == workerStatus[i]
           t == [s EXCEPT !.accept1m = @ + x.accept1m,
                          !.accept5m = @ + x.accept5m,
                          !.accept15m = @ + x.accept15m,
                          !.reject15m = @ + x.reject15m,
                          !.acceptCount = @ + x.acceptCount]
           u == IF x.lastShareTime >= s.lastShareTime
                THEN [t EXCEPT !.lastShareTime = x.lastShareTime,
                               !.lastShareIP = x.lastShareIP]
                ELSE t
       IN mergeFromLast(workerStatus, i + 1, u)

mergeWorkerStatus_LastWins(workerStatus) ==
  IF Len(workerStatus) = 0 THEN ZeroStatus
  ELSE mergeFromLast(workerStatus, 1, ZeroStatus)

\* lines 233-252
mergeWorkerStatus(workerStatus) ==
  IF Len(workerStatus) = 0 THEN ZeroStatus
  ELSE mergeFrom(workerStatus, 1, ZeroStatus)

\* the worker_id lists a request can carry
QueryIds == {W0, W1}
QueryLists == {<<W0>>, <<W1>>, <<W1, W0>>}

\* lines 431-453 and 215: the request is parsed and the handler takes the
\* reader lock of getWorkerStatusBatch
httpd_request ==
  /\ http.pc = "idle" /\ queries < MaxQueries /\ MayRdLock
  /\ queries' = queries + 1
  /\ \E userId \in Users, ids \in QueryLists, isMerge \in BOOLEAN :
       http' = [http EXCEPT !.pc = "find", !.userId = userId,
                  !.keys = [i \in DOMAIN ids |-> WorkerKey(userId, ids[i])],
                  !.isMerge = isMerge]
  /\ rwlock' = [rwlock EXCEPT !.readers = @ \cup {"http"}]
  /\ UNCHANGED <<now, ticks, wsVars, regVars, ing, msgs, sweeps, drops,
                 mergeVars, auxVars>>

\* lines 209-224
getWorkerStatusBatch_find ==
  /\ http.pc = "find"
  /\ http' = [http EXCEPT
       !.pc = "read", !.i = 1,
       !.status = [i \in DOMAIN http.keys |-> ZeroStatus],
       !.ptrs = [i \in DOMAIN http.keys |->
                   IF http.keys[i] \in DOMAIN workerSet
                   THEN workerSet[http.keys[i]] ELSE NullPtr]]
  /\ rwlock' = [rwlock EXCEPT !.readers = @ \ {"http"}]
  /\ UNCHANGED <<now, ticks, wsVars, regVars, ing, msgs, sweeps, queries, drops,
                 mergeVars, auxVars>>

\* lines 227-230, one turn; after the last one ptrs is destroyed (line 231)
\* and lines 455-459 merge the rows
getWorkerStatusBatch_read ==
  /\ http.pc = "read"
  /\ LET p == http.ptrs[http.i]
         st == IF p = NullPtr THEN http.status
               ELSE [http.status EXCEPT ![http.i] =
                       IF p \in DOMAIN heap THEN getWorkerStatus(heap[p], now)
                       ELSE Garbage]
     IN IF http.i < Len(http.ptrs)
        THEN /\ http' = [http EXCEPT !.status = st, !.i = @ + 1]
             /\ heap' = heap
        ELSE /\ http' = [http EXCEPT
                  !.status = IF http.isMerge THEN <<mergeWorkerStatus(st)>> ELSE st,
                  !.ptrs = <<>>, !.i = 1, !.pc = "row"]
             /\ heap' = Release(heap, Range(workerSet))
  /\ UNCHANGED <<now, ticks, wsVars, poolWorker, workerSet, userWorkerCount,
                 totalWorkerCount, totalUserCount, rwlock, ing, msgs, sweeps,
                 queries, drops,
                 mergeVars, auxVars>>

\* line 469
wantsWorkers(h) == ~h.isMerge /\ h.keys[h.i].workerId = W0

Row(h, workers) ==
  [worker_id |-> IF h.isMerge THEN W0 ELSE h.keys[h.i].workerId,
   status |-> h.status[h.i], workers |-> workers]

\* lines 463-488 for a row without the "workers" field
getWorkerStatus_row ==
  /\ http.pc = "row" /\ http.i <= Len(http.status)
  /\ ~wantsWorkers(http)
  /\ http' = [http EXCEPT !.rows = Append(@, Row(http, Null)), !.i = @ + 1]
  /\ UNCHANGED <<now, ticks, wsVars, regVars, rwlock, ing, msgs, sweeps, queries, drops,
                 mergeVars, auxVars>>

\* line 470
getWorkerStatus_rdlock ==
  /\ http.pc = "row" /\ http.i <= Len(http.status)
  /\ wantsWorkers(http) /\ MayRdLock
  /\ rwlock' = [rwlock EXCEPT !.readers = @ \cup {"http"}]
  /\ http' = [http EXCEPT !.pc = "extra"]
  /\ UNCHANGED <<now, ticks, wsVars, regVars, ing, msgs, sweeps, queries, drops,
                 mergeVars, auxVars>>

\* userWorkerCount_[userId] of line 471: std::map::operator[] creates the key
subscript(map, userId) == MapPut(map, userId, MapGet(map, userId))

\* lines 471-472 and the row
getWorkerStatus_workers ==
  /\ http.pc = "extra"
  /\ userWorkerCount' = subscript(userWorkerCount, http.userId)
  /\ http' = [http EXCEPT
       !.rows = Append(@, Row(http, [n |-> userWorkerCount'[http.userId]])),
       !.i = @ + 1, !.pc = "row"]
  /\ rwlock' = [rwlock EXCEPT !.readers = @ \ {"http"}]
  /\ UNCHANGED <<now, ticks, wsVars, poolWorker, heap, workerSet,
                 totalWorkerCount, totalUserCount, ing, msgs, sweeps, queries, drops,
                 mergeVars, auxVars>>

\* lines 424-428: the reply is sent and the handler returns
httpd_reply ==
  /\ http.pc = "row" /\ http.i > Len(http.status)
  /\ http' = HttpIdle
  /\ UNCHANGED <<now, ticks, wsVars, regVars, rwlock, ing, msgs, sweeps, queries, drops,
                 mergeVars, auxVars>>

Init ==
  /\ now = StartTime /\ ticks = 0
  /\ InitOneWorkerShares
  /\ InitRegistry

Ingest ==
  \/ Tick
  \/ processShare_gate
  \/ processShare_pool
  \/ processShare_rdlock
  \/ processShare_find
  \/ processShare_key1
  \/ processShare_key2
  \/ processShare_wrlock
  \/ processShare_install
  \/ removeExpiredWorkers_begin
  \/ removeExpiredWorkers_step
  \/ removeExpiredWorkers_end

Httpd ==
  \/ httpd_request
  \/ getWorkerStatusBatch_find
  \/ getWorkerStatusBatch_read
  \/ getWorkerStatus_row
  \/ getWorkerStatus_rdlock
  \/ getWorkerStatus_workers
  \/ httpd_reply

\* the ingestion thread and the clock
Next ==
  \/ consumeShareLog(RegSharesAt(now), MaxMsgs)
  \/ Ingest

Spec == Init /\ [][Next]_vars

\* the ingestion thread, the clock and the HTTP handler
NextHttp ==
  \/ consumeShareLog(HttpSharesAt(now), MaxHttpMsgs)
  \/ Ingest
  \/ Httpd

SpecHttp == Init /\ [][NextHttp]_vars

----------------------------------------------------------------------------
(* Claims about the registry (Spec, SpecHttp).                             *)

\* the worker entries of user u in workerSet_ (its user-total entry excluded)
WorkersOf(u) == {k \in DOMAIN workerSet : k.userId = u /\ k.workerId # W0}

\* C1: totalWorkerCount + totalUserCount equals the number of entries in the
\* workers map, in every reachable state.
C1_CounterSymmetry ==
  totalWorkerCount + totalUserCount = Cardinality(DOMAIN workerSet)

\* C1 witness: a sweep has removed an entry and entries are still counted.
C1_Witness ==
  /\ ing.pc = "sweep" /\ ing.expiredCnt >= 1
  /\ totalWorkerCount + totalUserCount >= 1
  /\ DOMAIN workerSet # {}

\* C2: for every user u, userWorkerCount[u] is the number of entries (u, w),
\* w # 0, in the workers map.
C2_UserWorkerCount ==
  \A u \in Users : MapGet(userWorkerCount, u) = Cardinality(WorkersOf(u))

\* C4: a share that is too old when StatsServer::processShare reads the clock
\* leaves the pool accumulator, every WorkerShares, the workers map and the
\* three counters as they were, and the call returns.
C4_FreshnessGate ==
  [][(/\ ing.pc = "gate" /\ ing'.pc # "gate"
      /\ now > ing.share.timestamp + STATS_SLIDING_WINDOW_SECONDS)
     => (ing'.pc = "idle" /\ UNCHANGED regVars)]_vars

\* C4 witness: the gate has turned a share away while the registry held
\* entries and the pool accumulator held shares.
C4_Witness ==
  /\ drops >= 1 /\ ing.pc = "idle"
  /\ DOMAIN workerSet # {} /\ poolWorker.acceptCount >= 1

\* the step in which removeExpiredWorkers returns
SweepReturns == ing.pc = "sweep" /\ ing'.pc = "idle"

\* C5 as claimed: when removeExpiredWorkers completes at time t, every entry
\* left in the map has lastShareTime + 900 >= t and every entry it removed
\* had lastShareTime + 900 < t.
C5_ExpiryAtCompletion ==
  [][SweepReturns =>
       /\ \A k \in DOMAIN workerSet' :
            heap'[workerSet'[k]].lastShareTime + STATS_SLIDING_WINDOW_SECONDS >= now'
       /\ \A t \in ing.removed : t + STATS_SLIDING_WINDOW_SECONDS < now']_vars

\* C5 as amended: when removeExpiredWorkers, started at time t0, completes at
\* time t, every entry left in the map has lastShareTime + 900 >= t0 and
\* every entry it removed had lastShareTime + 900 < t.
C5_ExpiryBetweenStartAndCompletion ==
  [][SweepReturns =>
       /\ \A k \in DOMAIN workerSet' :
            heap'[workerSet'[k]].lastShareTime + STATS_SLIDING_WINDOW_SECONDS
              >= ing.sweepStart
       /\ \A t \in ing.removed : t + STATS_SLIDING_WINDOW_SECONDS < now']_vars

\* C5 witness: the loop of removeExpiredWorkers has visited every entry,
\* removed one and kept one.
C5_Witness ==
  /\ ing.pc = "sweep" /\ ing.todo = {}
  /\ ing.removed # {} /\ DOMAIN workerSet # {}

\* C6: an entry the sweep removes holds no share inside a query window: a
\* snapshot of it at that moment has accept1m, accept5m, accept15m and
\* reject15m all zero, so that a query returns the same rates with or
\* without the sweep.
C6_SweepRemovesOnlyEmptyWindows ==
  [][\A k \in DOMAIN workerSet :
       k \notin DOMAIN workerSet' =>
         LET s == getWorkerStatus(heap[workerSet[k]], now)
         IN s.accept1m = 0 /\ s.accept5m = 0 /\ s.accept15m = 0 /\ s.reject15m = 0]_vars

\* C7: between the lookup and the read every handle the handler holds points
\* to a live WorkerShares, also when the key has been erased meanwhile; what
\* it has read through a handle is a WorkerStatus of that object, and a key
\* that was absent at the lookup has the all-zero WorkerStatus.
C7_TwoPhaseRead ==
  http.pc = "read" =>
    \A i \in DOMAIN http.ptrs :
      /\ http.ptrs[i] # NullPtr => http.ptrs[i] \in DOMAIN heap
      /\ http.status[i] # Garbage
      /\ http.ptrs[i] = NullPtr => http.status[i] = ZeroStatus

\* C7 witness: the handler has read a non-empty snapshot through a handle
\* whose key removeExpiredWorkers had erased after the lookup.
C7_Witness ==
  /\ http.pc = "read" /\ http.i = 2
  /\ http.ptrs[1] # NullPtr
  /\ http.ptrs[1] \notin Range(workerSet)
  /\ http.status[1].acceptCount >= 1

\* C9: workerSet_, userWorkerCount_, totalWorkerCount_ and totalUserCount_
\* change only in steps of a thread that holds rwlock_ as the writer.
C9_MutatedOnlyUnderWriterLock ==
  [][(\/ workerSet' # workerSet
      \/ userWorkerCount' # userWorkerCount
      \/ totalWorkerCount' # totalWorkerCount
      \/ totalUserCount' # totalUserCount) => rwlock.writer]_vars

\* acceptCount_ of the entry under key, 0 when the map has no such entry
AcceptCountOf(key) ==
  IF key \in DOMAIN workerSet THEN heap[workerSet[key]].acceptCount ELSE 0

\* C15: in a state reached without a sweep, with no share under way, each
\* user-total acceptCount is the sum of the acceptCount of that user's worker
\* entries, and the pool acceptCount is the sum of the user-total
\* acceptCounts: every admitted share was applied once to each of the three.
C15_ThreeWayAggregation ==
  (ing.pc = "idle" /\ sweeps = 0) =>
    /\ \A u \in Users :
         AcceptCountOf(WorkerKey(u, W0)) =
           SumOver([k \in WorkersOf(u) |-> AcceptCountOf(k)], WorkersOf(u))
    /\ poolWorker.acceptCount =
         SumOver([u \in Users |-> AcceptCountOf(WorkerKey(u, W0))], Users)

\* C16: the sweep undoes what installation did, for every 64-bit worker id:
\* removing a key with workerId # 0 takes one off totalWorkerCount and off
\* userWorkerCount[userId] and leaves totalUserCount; removing a key with
\* workerId = 0 takes one off totalUserCount and leaves the other two.
C16_SweepUndoesInstall ==
  [][\A k \in DOMAIN workerSet :
       (ing.pc = "sweep" /\ k \notin DOMAIN workerSet') =>
         IF k.workerId # W0
         THEN /\ totalWorkerCount' = totalWorkerCount - 1
              /\ MapGet(userWorkerCount', k.userId) =
                   MapGet(userWorkerCount, k.userId) - 1
              /\ totalUserCount' = totalUserCount
         ELSE /\ totalUserCount' = totalUserCount - 1
              /\ totalWorkerCount' = totalWorkerCount
              /\ userWorkerCount' = userWorkerCount]_vars

\* C19: outside the writer's critical sections, a workers map that holds a
\* worker entry (u, w), w # 0, also holds the user-total entry (u, 0).
C19_UserTotalPresent ==
  ~rwlock.writer =>
    \A k \in DOMAIN workerSet :
      k.workerId # W0 => WorkerKey(k.userId, W0) \in DOMAIN workerSet

\* C20: an entry is installed with the share that created it recorded: at
\* the install its lastShareTime is that share's timestamp.
C20_InstalledEntryHoldsShare ==
  [][(ing.pc = "install" /\ ing'.pc = "idle") =>
       /\ ing.workerShare1 # Null =>
            ing.workerShare1.lastShareTime = ing.share.timestamp
       /\ ing.workerShare2 # Null =>
            ing.workerShare2.lastShareTime = ing.share.timestamp]_vars

----------------------------------------------------------------------------
(* SpecWS: one WorkerShares, a writer in processShare and a reader in      *)
(* getWorkerStatus, each statement a step, lock_ as ScopeLock takes it.    *)

\* the shares that can arrive at time t
SharesAt(t) ==
  [timestamp : {t - a : a \in ShareAges}, ip : IPs, share : ShareValues,
   result : Results]

\* line 42: ScopeLock sl(lock_)
WS_Lock ==
  /\ wpc = "idle" /\ wsLock = "none"
  /\ Len(hist) < MaxShares
  /\ \E s \in SharesAt(now) : wshare' = s
  /\ wsLock' = "writer" /\ wpc' = "gate"
  /\ UNCHANGED <<now, ticks, ws, rstatus, rtime, rprefix, rhist, committed, hist>>
  /\ UNCHANGED <<srvVars, mergeVars, auxVars>>

\* lines 43-46: the freshness check; a return releases the lock
WS_Gate ==
  /\ wpc = "gate"
  /\ IF tooOld(wshare, now)
     THEN wpc' = "idle" /\ wsLock' = "none"
     ELSE wpc' = "update" /\ wsLock' = wsLock
  /\ UNCHANGED <<now, ticks, ws, wshare, rstatus, rtime, rprefix, rhist, committed, hist>>
  /\ UNCHANGED <<srvVars, mergeVars, auxVars>>

\* lines 48-49 (acceptCount_++) or lines 51-52 (the reject insert)
WS_Update ==
  /\ wpc = "update"
  /\ IF wshare.result = "ACCEPT"
     THEN ws' = countShare(ws, wshare) /\ wpc' = "insert"
     ELSE ws' = insertReject(ws, wshare) /\ wpc' = "stamp"
  /\ UNCHANGED <<now, ticks, wsLock, wshare, rstatus, rtime, rprefix, rhist, committed, hist>>
  /\ UNCHANGED <<srvVars, mergeVars, auxVars>>

\* line 50
WS_Insert ==
  /\ wpc = "insert"
  /\ ws' = insertAccept(ws, wshare)
  /\ wpc' = "stamp"
  /\ UNCHANGED <<now, ticks, wsLock, wshare, rstatus, rtime, rprefix, rhist, committed, hist>>
  /\ UNCHANGED <<srvVars, mergeVars, auxVars>>

\* lines 55-57: the stamp, and the end of the scope releases the lock
WS_Stamp ==
  /\ wpc = "stamp"
  /\ ws' = stampShare(ws, wshare)
  /\ committed' = ws'
  /\ hist' = Append(hist, wshare)
  /\ wpc' = "idle" /\ wsLock' = "none"
  /\ UNCHANGED <<now, ticks, wshare, rstatus, rtime, rprefix, rhist>>
  /\ UNCHANGED <<srvVars, mergeVars, auxVars>>

\* a reader that does not take lock_
ReaderMayLock_NoLock == TRUE

\* the reader may take lock_ (lines 60, 77)
ReaderMayLock == wsLock = "none"

\* lines 59-74 / 76-88: the snapshot under lock_
WS_Read ==
  /\ ReaderMayLock
  /\ rstatus' = getWorkerStatus(ws, now)
  /\ rtime' = now
  /\ rprefix' = committed
  /\ rhist' = Len(hist)
  /\ UNCHANGED <<now, ticks, ws, wsLock, wpc, wshare, committed, hist>>
  /\ UNCHANGED <<srvVars, mergeVars, auxVars>>

InitWS ==
  /\ now = StartTime /\ ticks = 0
  /\ InitOneWorkerShares
  /\ InitRegistry

NextWS ==
  \/ Tick
  \/ WS_Lock
  \/ WS_Gate
  \/ WS_Update
  \/ WS_Insert
  \/ WS_Stamp
  \/ WS_Read

SpecWS == InitWS /\ [][NextWS]_vars

----------------------------------------------------------------------------
(* Claims about one WorkerShares (SpecWS).                                 *)

\* the first n shares of hist that were accepted with a timestamp in (t - k, t]
AcceptedIn(n, t, k) ==
  {i \in 1..n : /\ hist[i].result = "ACCEPT"
                /\ hist[i].timestamp > t - k /\ hist[i].timestamp <= t}

HistSum(t, k) ==
  LET S == AcceptedIn(Len(hist), t, k)
  IN SumOver([i \in S |-> hist[i].share], S)

\* C3: a snapshot taken at time now reports, as accept1m / accept5m /
\* accept15m, the sum of the values of all processed ACCEPT shares whose
\* timestamp lies in (now - 60, now] / (now - 300, now] / (now - 900, now]:
\* no admitted share that is still in the window has been evicted.  (Every
\* share of SpecWS has a timestamp <= the clock at its arrival.)
C3_WindowSumsAllAdmitted ==
  wpc = "idle" =>
    LET s == getWorkerStatus(ws, now)
    IN /\ s.accept1m  = HistSum(now, LEN_1M)
       /\ s.accept5m  = HistSum(now, LEN_5M)
       /\ s.accept15m = HistSum(now, LEN_15M)

\* C8: every snapshot is the snapshot of the object as some whole number of
\* processShare calls left it, and its acceptCount is at least the number of
\* accepted shares that lie in its accept windows.
C8_SnapshotAtomic ==
  rstatus # NoStatus =>
    /\ rstatus = getWorkerStatus(rprefix, rtime)
    /\ rstatus.acceptCount >=
         Cardinality(AcceptedIn(rhist, rtime, STATS_SLIDING_WINDOW_SECONDS))

\* C8 witness: the reader holds a snapshot with an accepted share in its
\* windows, taken between two calls, while the writer is inside a later call
\* with the count already incremented and the window insert still to come.
C8_Witness ==
  /\ rstatus # NoStatus
  /\ rstatus.acceptCount >= 1 /\ rstatus.accept15m >= 1
  /\ wpc = "insert" /\ ws.acceptCount > rstatus.acceptCount

\* C14: a call of WorkerShares::processShare that is not dropped as too old
\* leaves, for an ACCEPT share, acceptCount one higher, (timestamp, share)
\* inserted into the accept window and the reject window as it was; for any
\* other result, (timestamp / 60, share) inserted into the reject window and
\* acceptCount and the accept window as they were; in both cases lastShareIP
\* and lastShareTime are the share's ip and timestamp.
C14_ProcessShareEffect ==
  [][(wpc = "stamp" /\ wpc' = "idle") =>
       /\ ws'.lastShareIP = wshare.ip
       /\ ws'.lastShareTime = wshare.timestamp
       /\ IF wshare.result = "ACCEPT"
          THEN /\ ws'.acceptCount = committed.acceptCount + 1
               /\ ws'.acceptShareSec =
                     insert(committed.acceptShareSec, wshare.timestamp,
                            wshare.share)
               /\ ws'.rejectShareMin = committed.rejectShareMin
          ELSE /\ ws'.rejectShareMin =
                     insert(committed.rejectShareMin,
                            wshare.timestamp \div SECONDS_PER_MINUTE, wshare.share)
               /\ ws'.acceptCount = committed.acceptCount
               /\ ws'.acceptShareSec = committed.acceptShareSec]_vars

\* C14 witness: the object has processed an accepted and a rejected share.
C14_Witness ==
  /\ wpc = "idle" /\ Len(hist) = 2
  /\ hist[1].result = "ACCEPT" /\ hist[2].result = "REJECT"
  /\ ws.acceptCount = 1
  /\ DOMAIN ws.rejectShareMin.slots # {}
  /\ ws.lastShareTime = hist[2].timestamp

----------------------------------------------------------------------------
(* SpecMerge: mergeWorkerStatus applied to a list of snapshots, once to the *)
(* whole list and once to the merges of its consecutive groups.            *)

\* The snapshots merged: lastShareTime and lastShareIP are written together
\* (lines 55-56) and start at 0, and no share stamped 0 passes the gate of
\* line 44, so a snapshot whose lastShareTime is 0 has lastShareIP 0.  The
\* shares behind the other snapshots came from the addresses 1 and 2.
StatusSamples ==
  {s \in [accept1m : {0, 1}, accept5m : {2}, accept15m : {3}, reject15m : {0, 1},
          acceptCount : {1}, lastShareIP : {0, 1, 2}, lastShareTime : {0, 5, 9}] :
     /\ (s.lastShareTime = 0) <=> (s.lastShareIP = 0)
     /\ s.lastShareTime = 9 => s.lastShareIP = 1}
     \cup {ZeroStatus}

RECURSIVE SeqsUpTo(_, _)
SeqsUpTo(S, n) ==
  IF n = 0 THEN {<<>>}
  ELSE LET shorter == SeqsUpTo(S, n - 1)
       IN shorter \cup {Append(q, x) : q \in shorter, x \in S}

\* the merges of the consecutive groups of list that end at the indices in
\* cuts (and at the end of the list), from index start on
RECURSIVE GroupMerges(_, _, _)
GroupMerges(list, cuts, start) ==
  IF start > Len(list) THEN <<>>
  ELSE LET ends == {c \in cuts \cup {Len(list)} : c >= start}
           end == CHOOSE c \in ends : \A d \in ends : c <= d
       IN <<mergeWorkerStatus(SubSeq(list, start, end))>>
            \o GroupMerges(list, cuts, end + 1)

InitMerge ==
  /\ now = StartTime /\ ticks = 0
  /\ InitOneWorkerShares
  /\ InitServer
  /\ mList \in SeqsUpTo(StatusSamples, MaxList)
  /\ mCuts = {}
  /\ mWhole = NoStatus /\ mParts = NoStatus

\* lines 455-456 on the whole list
Merge_Whole ==
  /\ mWhole = NoStatus
  /\ mWhole' = mergeWorkerStatus(mList)
  /\ UNCHANGED <<now, ticks, wsVars, srvVars, mList, mCuts, mParts, auxVars>>

\* lines 455-456 on each group, and again on the results
Merge_Groups ==
  /\ mWhole # NoStatus /\ mParts = NoStatus
  /\ \E cuts \in SUBSET (1..(Len(mList) - 1)) :
       /\ mCuts' = cuts
       /\ mParts' = mergeWorkerStatus(GroupMerges(mList, cuts, 1))
  /\ UNCHANGED <<now, ticks, wsVars, srvVars, mList, mWhole, auxVars>>

NextMerge ==
  \/ Merge_Whole
  \/ Merge_Groups

SpecMerge == InitMerge /\ [][NextMerge]_vars

(* Claims about mergeWorkerStatus (SpecMerge).                             *)

FieldSum(list, field) ==
  SumOver([i \in DOMAIN list |-> list[i][field]], DOMAIN list)

MaxTime(list) ==
  IF list = <<>> THEN 0
  ELSE LET T == {list[i].lastShareTime : i \in DOMAIN list}
       IN CHOOSE t \in T : \A u \in T : u <= t

FirstAt(list, t) ==
  CHOOSE i \in DOMAIN list :
    /\ list[i].lastShareTime = t
    /\ \A j \in DOMAIN list : list[j].lastShareTime = t => i <= j

\* C10: mergeWorkerStatus adds up accept1m, accept5m, accept15m, reject15m
\* and acceptCount, takes the largest lastShareTime with the lastShareIP of
\* the first input that has it, and merging the merges of consecutive groups
\* gives the same sums and the same lastShareTime as merging the whole list.
C10_MergeLaw ==
  /\ mWhole # NoStatus =>
       /\ mWhole.accept1m = FieldSum(mList, "accept1m")
       /\ mWhole.accept5m = FieldSum(mList, "accept5m")
       /\ mWhole.accept15m = FieldSum(mList, "accept15m")
       /\ mWhole.reject15m = FieldSum(mList, "reject15m")
       /\ mWhole.acceptCount = FieldSum(mList, "acceptCount")
       /\ mWhole.lastShareTime = MaxTime(mList)
       /\ mList # <<>> =>
            mWhole.lastShareIP = mList[FirstAt(mList, MaxTime(mList))].lastShareIP
  /\ mParts # NoStatus =>
       /\ mParts.accept1m = mWhole.accept1m
       /\ mParts.accept5m = mWhole.accept5m
       /\ mParts.accept15m = mWhole.accept15m
       /\ mParts.reject15m = mWhole.reject15m
       /\ mParts.acceptCount = mWhole.acceptCount
       /\ mParts.lastShareTime = mWhole.lastShareTime

\* C10 witness: a list of three snapshots, two of them sharing the largest
\* lastShareTime with different addresses, merged as two groups.
C10_Witness ==
  /\ mParts # NoStatus
  /\ Len(mList) = 3 /\ Cardinality(mCuts) = 1
  /\ mList[1].lastShareTime = 5 /\ mList[3].lastShareTime = 5
  /\ mList[1].lastShareIP # mList[3].lastShareIP
  /\ mWhole.lastShareTime = 5 /\ mWhole.accept1m >= 2

----------------------------------------------------------------------------
(* SpecLoop: the life of a StatsServer: run(), the consume loop of         *)
(* runThreadConsume, the HTTP event loop, stop() and the destructor.       *)

\* line 313
kExpiredCleanInterval == 60 * 30

\* the shares a payload of the broker can carry at time t
LoopSharesAt(t) ==
  [timestamp : {t}, userId : Users, workerHashId : {W1, W0}, ip : IPs,
   share : {1}, result : {"ACCEPT"}]

\* payloads that consumeShareLog hands on to processShare
Deliverable(m) == m.kind = "payload" /\ m.lenOk /\ isValid(m.share)

\* what kafkaConsumer_.consumer(kTimeoutMs) can return at time t: nullptr
\* after the timeout, a message with an error status, or a payload (of the
\* size of a Share or of another size)
PollOutcomes(t) ==
  {Message("null"), Message("eof"), Message("error"), Message("fatal")}
    \cup [kind : {"payload"}, lenOk : BOOLEAN, share : LoopSharesAt(t)]

\* the process is gone: LOG(FATAL), or a crash
Abort ==
  /\ aborted' = TRUE
  /\ mpc' = "aborted" /\ cpc' = "aborted"
  /\ spc' = [c \in StopCallers |-> "aborted"]
  /\ ing' = IngIdle

\* the wall clock moves past the clean interval
Elapse ==
  /\ ticks < MaxTicks
  /\ now' = now + kExpiredCleanInterval + 1
  /\ ticks' = ticks + 1
  /\ UNCHANGED <<wsVars, srvVars, mergeVars, auxVars>>

(* ---- run() and runHttpd(), on the main thread ---- *)

\* lines 513-516 and 293-307: the consumer is set up and threadConsume_
\* started, or run() returns
run_setup ==
  /\ mpc = "constructed"
  /\ \/ mpc' = "returned" /\ cpc' = cpc
     \/ mpc' = "runHttpd" /\ cpc' = "start"
  /\ UNCHANGED <<now, ticks, wsVars, srvVars, mergeVars, raceVars, running, base,
                 loopexit, spc, lastCleanTime, rkmessage, aborted, stopping>>

\* lines 495-496
runHttpd_new ==
  /\ mpc = "runHttpd"
  /\ base' = "created"
  /\ mpc' = "bind"
  /\ UNCHANGED <<now, ticks, wsVars, srvVars, mergeVars, raceVars, running,
                 loopexit, cpc, spc, lastCleanTime, rkmessage, aborted, stopping>>

\* lines 505-509: the socket is bound, or runHttpd returns
runHttpd_bind ==
  /\ mpc = "bind"
  /\ mpc' \in {"dispatch", "returned"}
  /\ UNCHANGED <<now, ticks, wsVars, srvVars, mergeVars, raceVars, running, base,
                 loopexit, cpc, spc, lastCleanTime, rkmessage, aborted, stopping>>

\* line 510: event_base_dispatch returns once the loop was asked to exit
runHttpd_dispatch ==
  /\ mpc = "dispatch" /\ loopexit
  /\ mpc' = "returned"
  /\ UNCHANGED <<now, ticks, wsVars, srvVars, mergeVars, raceVars, running, base,
                 loopexit, cpc, spc, lastCleanTime, rkmessage, aborted, stopping>>

(* ---- stop() and the destructor ---- *)

\* Running: the consumer was set up and run() has not returned
Running == mpc \in {"runHttpd", "bind", "dispatch"}

\* where a caller of stop() is when stop() has returned
Returned(c) == IF c = "dtor" THEN "done" ELSE "idle"

\* a signal handler calls stop() on the live object
stop_call ==
  /\ spc["signal"] = "idle"
  /\ mpc \in {"constructed", "runHttpd", "bind", "dispatch", "returned"}
  /\ spc' = [spc EXCEPT !["signal"] = "call"]
  /\ UNCHANGED <<now, ticks, wsVars, srvVars, mergeVars, raceVars, running, base,
                 loopexit, mpc, cpc, lastCleanTime, rkmessage, aborted, stopping>>

\* lines 118-121
stop_flag(c) ==
  /\ spc[c] = "call"
  /\ IF ~running
     THEN /\ spc' = [spc EXCEPT ![c] = Returned(c)]
          /\ UNCHANGED <<running, stopping>>
     ELSE /\ running' = FALSE
          /\ stopping' = (stopping \/ Running)
          /\ spc' = [spc EXCEPT ![c] = "exit"]
  /\ UNCHANGED <<now, ticks, wsVars, srvVars, mergeVars, raceVars, base,
                 loopexit, mpc, cpc, lastCleanTime, rkmessage, aborted>>

\* line 122: event_base_loopexit(base_, NULL); on a null base the library
\* returns an error or the process crashes
stop_loopexit(c) ==
  /\ spc[c] = "exit"
  /\ \/ /\ base = "created"
        /\ loopexit' = TRUE
        /\ spc' = [spc EXCEPT ![c] = Returned(c)]
        /\ UNCHANGED <<mpc, cpc, aborted, ing>>
     \/ /\ base = "null"
        /\ spc' = [spc EXCEPT ![c] = Returned(c)]
        /\ UNCHANGED <<loopexit, mpc, cpc, aborted, ing>>
     \/ /\ base = "null"
        /\ Abort
        /\ UNCHANGED loopexit
  /\ UNCHANGED <<now, ticks, wsVars, regVars, rwlock, http, msgs, sweeps, queries,
                 drops, mergeVars, raceVars, running, base, lastCleanTime,
                 rkmessage, stopping>>

\* line 109: the destructor, on an object nothing else is using, calls stop()
dtor_stop ==
  /\ mpc \in {"constructed", "returned"}
  /\ spc["signal"] = "idle"
  /\ mpc' = "dtor"
  /\ spc' = [spc EXCEPT !["dtor"] = "call"]
  /\ UNCHANGED <<now, ticks, wsVars, srvVars, mergeVars, raceVars, running, base,
                 loopexit, cpc, lastCleanTime, rkmessage, aborted, stopping>>

\* lines 111-114: join, if there is a thread, returns when it has exited
dtor_join ==
  /\ mpc = "dtor" /\ spc["dtor"] = "done"
  /\ cpc \in {"none", "exited"}
  /\ mpc' = "destroyed"
  /\ UNCHANGED <<now, ticks, wsVars, srvVars, mergeVars, raceVars, running, base,
                 loopexit, cpc, spc, lastCleanTime, rkmessage, aborted, stopping>>

(* ---- runThreadConsume ---- *)

\* lines 310-314
runThreadConsume_start ==
  /\ cpc = "start"
  /\ lastCleanTime' = now
  /\ cpc' = "top"
  /\ UNCHANGED <<now, ticks, wsVars, srvVars, mergeVars, raceVars, running, base,
                 loopexit, mpc, spc, rkmessage, aborted, stopping>>

\* line 316, and line 336 when the loop is left
runThreadConsume_while ==
  /\ cpc = "top"
  /\ cpc' = IF running THEN "poll" ELSE "exited"
  /\ UNCHANGED <<now, ticks, wsVars, srvVars, mergeVars, raceVars, running, base,
                 loopexit, mpc, spc, lastCleanTime, rkmessage, aborted, stopping>>

\* lines 317-324: the poll; on nullptr the loop continues
runThreadConsume_poll ==
  /\ cpc = "poll"
  /\ \E m \in PollOutcomes(now) :
       /\ Deliverable(m) => msgs < MaxLoopMsgs
       /\ rkmessage' = m
       /\ msgs' = IF Deliverable(m) THEN msgs + 1 ELSE msgs
       /\ cpc' = IF m.kind = "null" THEN "top" ELSE "consume"
  /\ UNCHANGED <<now, ticks, wsVars, regVars, rwlock, ing, http, sweeps, queries,
                 drops, mergeVars, raceVars, running, base, loopexit, mpc, spc,
                 lastCleanTime, aborted, stopping>>

\* a length check that lets every payload through
wrongLength_Never(m) == FALSE

\* line 279
wrongLength(m) == ~m.lenOk

\* lines 254-291: consumeShareLog on the message polled, up to the call of
\* processShare
consumeShareLog_message ==
  /\ cpc = "consume"
  /\ IF rkmessage.kind = "fatal"
     THEN Abort
     ELSE /\ IF \/ rkmessage.kind \in {"eof", "error"}
                \/ wrongLength(rkmessage)
                \/ ~isValid(rkmessage.share)
             THEN cpc' = "clean" /\ ing' = ing
             ELSE /\ cpc' = "process"
                  /\ ing' = [ing EXCEPT !.pc = "gate", !.share = rkmessage.share]
          /\ UNCHANGED <<mpc, spc, aborted>>
  /\ UNCHANGED <<now, ticks, wsVars, regVars, rwlock, http, msgs, sweeps, queries,
                 drops, mergeVars, raceVars, running, base, loopexit,
                 lastCleanTime, rkmessage, stopping>>

\* lines 327-328: consumeShareLog has returned from processShare
runThreadConsume_consumed ==
  /\ cpc = "process" /\ ing.pc = "idle"
  /\ cpc' = "clean"
  /\ UNCHANGED <<now, ticks, wsVars, srvVars, mergeVars, raceVars, running, base,
                 loopexit, mpc, spc, lastCleanTime, rkmessage, aborted, stopping>>

\* line 331, and lines 332 and 177-179 when the interval has passed
runThreadConsume_clean ==
  /\ cpc = "clean"
  /\ IF lastCleanTime + kExpiredCleanInterval < now
     THEN /\ MayWrLock
          /\ sweeps' = sweeps + 1
          /\ rwlock' = [rwlock EXCEPT !.writer = TRUE]
          /\ ing' = [ing EXCEPT !.pc = "sweep", !.todo = DOMAIN workerSet,
                                !.expiredCnt = 0, !.sweepStart = now,
                                !.removed = {}]
          /\ cpc' = "sweep"
     ELSE /\ cpc' = "top"
          /\ UNCHANGED <<sweeps, rwlock, ing>>
  /\ UNCHANGED <<now, ticks, wsVars, regVars, http, msgs, queries, drops,
                 mergeVars, raceVars, running, base, loopexit, mpc, spc,
                 lastCleanTime, rkmessage, aborted, stopping>>

\* line 333: removeExpiredWorkers has returned
runThreadConsume_cleaned ==
  /\ cpc = "sweep" /\ ing.pc = "idle"
  /\ lastCleanTime' = now
  /\ cpc' = "top"
  /\ UNCHANGED <<now, ticks, wsVars, srvVars, mergeVars, raceVars, running, base,
                 loopexit, mpc, spc, rkmessage, aborted, stopping>>

InitLoopSpec ==
  /\ now = StartTime /\ ticks = 0
  /\ InitOneWorkerShares
  /\ InitRegistry

\* the steps of threadConsume_
Consumer ==
  \/ runThreadConsume_start
  \/ runThreadConsume_while
  \/ runThreadConsume_poll
  \/ consumeShareLog_message
  \/ processShare_gate
  \/ processShare_pool
  \/ processShare_rdlock
  \/ processShare_find
  \/ processShare_key1
  \/ processShare_key2
  \/ processShare_wrlock
  \/ processShare_install
  \/ runThreadConsume_consumed
  \/ runThreadConsume_clean
  \/ removeExpiredWorkers_step
  \/ removeExpiredWorkers_end
  \/ runThreadConsume_cleaned

\* the steps of the main thread once run() is under way or the destructor
\* has called stop()
Mainline ==
  \/ runHttpd_new
  \/ runHttpd_bind
  \/ runHttpd_dispatch
  \/ dtor_join

\* the steps of stop() once it was called
Stop == \E c \in StopCallers : stop_flag(c) \/ stop_loopexit(c)

NextLoop ==
  \/ Elapse
  \/ run_setup
  \/ stop_call
  \/ dtor_stop
  \/ Stop
  \/ Mainline
  \/ Consumer

SpecLoop == InitLoopSpec /\ [][NextLoop]_vars

\* every thread that can take a step eventually takes one; when run(),
\* stop() and the destructor are called, and what the broker returns, is
\* left open
SpecLoopLive ==
  /\ SpecLoop
  /\ WF_vars(Consumer)
  /\ WF_vars(Mainline)
  /\ WF_vars(Stop)

(* Claims about the life of the server (SpecLoop, SpecLoopLive).           *)

\* the ingestion worker has exited and the HTTP loop has returned
Stopped == cpc = "exited" /\ mpc \in {"returned", "dtor", "destroyed"}

\* the process was ended by a fatal broker error
BrokerFatal == aborted /\ rkmessage.kind = "fatal"

\* C11: once stop() has taken effect on a Running server, running_ stays
\* false, and the ingestion worker leaves its loop and the HTTP loop returns,
\* so that Stopped is eventually reached (unless a fatal broker error ends
\* the process first).
C11_Shutdown ==
  /\ [](stopping => ~running)
  /\ stopping ~> (Stopped \/ BrokerFatal)

\* C12: while the ingestion worker runs, once more than 1800 s have passed
\* since the previous sweep (or since the worker started) it eventually
\* calls removeExpiredWorkers, whatever the polls return.
C12_PeriodicSweep ==
  (/\ cpc \in {"top", "poll", "consume", "process", "clean"}
   /\ lastCleanTime + kExpiredCleanInterval < now)
    ~> (cpc \in {"sweep", "exited", "aborted"})

\* messages that consumeShareLog logs or ignores
Skipped(m) ==
  \/ m.kind \in {"eof", "error"}
  \/ m.kind = "payload" /\ (~m.lenOk \/ ~isValid(m.share))

\* C13: consumeShareLog on a message with an end-of-partition or transient
\* error status, a payload of the wrong length or an invalid share leaves
\* every accumulator, the workers map and the counters unchanged and the
\* loop goes on; only a payload of the right length with a valid share
\* reaches processShare.
C13_BadMessagesSkipped ==
  /\ [][(cpc = "consume" /\ cpc' # "consume" /\ ~aborted' /\ Skipped(rkmessage))
         => (UNCHANGED regVars /\ ing' = ing /\ cpc' = "clean")]_vars
  /\ [][(ing.pc = "idle" /\ ing'.pc = "gate")
         => (Deliverable(rkmessage) /\ ing'.share = rkmessage.share)]_vars

\* C13 witness: a payload of the wrong length has been skipped while the
\* registry held entries, and the loop is at its sweep check.
C13_Witness ==
  /\ cpc = "clean"
  /\ rkmessage.kind = "payload" /\ ~rkmessage.lenOk
  /\ DOMAIN workerSet # {} /\ poolWorker.acceptCount >= 1

\* C18: whenever stop() asks the event loop to exit, base_ has been created.
C18_StopNeverOnNullBase ==
  [][\A c \in StopCallers :
       (spc[c] = "exit" /\ spc'[c] # "exit") => base = "created"]_vars

----------------------------------------------------------------------------
(* SpecRace: StatsServer::processShare run by two callers at once, all     *)
(* shares for one key.  The critical sections of rwlock_ are single steps. *)
(* A caller that found the key reads itr->second outside the lock; the     *)
(* steps of the callers interleave, so the read sees the object the map    *)
(* held before or after another caller's install.                          *)

\* the share every caller brings at time t
RaceShare(t) ==
  [timestamp |-> t, userId |-> 1, workerHashId |-> W1, ip |-> 7, share |-> 1,
   result |-> "ACCEPT"]

\* lines 125-130: the gate, and the pool accumulator under its own lock
caller_call(p) ==
  /\ callers[p].pc = "idle"
  /\ raced.processed < MaxRaceShares
  /\ ~staleAtArrival(RaceShare(now), now)
  /\ poolWorker' = processShare(poolWorker, RaceShare(now), now)
  /\ callers' = [callers EXCEPT ![p] = [@ EXCEPT !.pc = "find",
                                                 !.share = RaceShare(now)]]
  /\ raced' = [raced EXCEPT !.processed = @ + 1]
  /\ UNCHANGED <<now, ticks, wsVars, heap, workerSet, userWorkerCount,
                 totalWorkerCount, totalUserCount, rwlock, ing, http, msgs,
                 sweeps, queries, drops, mergeVars, loopVars>>

\* lines 140-145
caller_find(p) ==
  /\ callers[p].pc = "find" /\ MayRdLock
  /\ callers' = [callers EXCEPT ![p] =
                   [@ EXCEPT !.pc = "proc1",
                             !.itr1 = find(workerSet, key1(callers[p].share)),
                             !.itr2 = find(workerSet, key2(callers[p].share)),
                             !.workerShare1 = Null, !.workerShare2 = Null]]
  /\ UNCHANGED <<now, ticks, wsVars, srvVars, mergeVars, loopVars, raced>>

\* lines 147-152
caller_key1(p) ==
  /\ callers[p].pc = "proc1"
  /\ LET c == callers[p]
     IN IF c.itr1 # End
        THEN /\ heap' = [heap EXCEPT ![workerSet[c.itr1]] =
                           processShare(@, c.share, now)]
             /\ callers' = [callers EXCEPT ![p] = [@ EXCEPT !.pc = "proc2"]]
        ELSE /\ callers' = [callers EXCEPT ![p] =
                              [@ EXCEPT !.pc = "proc2",
                                 !.workerShare1 =
                                    processShare(WorkerShares(c.share.workerHashId,
                                                              c.share.userId),
                                                 c.share, now)]]
             /\ heap' = heap
  /\ UNCHANGED <<now, ticks, wsVars, poolWorker, workerSet, userWorkerCount,
                 totalWorkerCount, totalUserCount, rwlock, ing, http, msgs,
                 sweeps, queries, drops, mergeVars, loopVars, raced>>

\* lines 154-159, and the test of line 161
caller_key2(p) ==
  /\ callers[p].pc = "proc2"
  /\ LET c == callers[p]
     IN IF c.itr2 # End
        THEN /\ heap' = [heap EXCEPT ![workerSet[c.itr2]] =
                           processShare(@, c.share, now)]
             /\ callers' = [callers EXCEPT ![p] =
                              IF c.workerShare1 # Null
                              THEN [@ EXCEPT !.pc = "install"]
                              ELSE CallerIdle]
        ELSE /\ callers' = [callers EXCEPT ![p] =
                              [@ EXCEPT !.pc = "install",
                                 !.workerShare2 =
                                    processShare(WorkerShares(c.share.workerHashId,
                                                              c.share.userId),
                                                 c.share, now)]]
             /\ heap' = heap
  /\ UNCHANGED <<now, ticks, wsVars, poolWorker, workerSet, userWorkerCount,
                 totalWorkerCount, totalUserCount, rwlock, ing, http, msgs,
                 sweeps, queries, drops, mergeVars, loopVars, raced>>

\* lines 162-172
caller_install(p) ==
  /\ callers[p].pc = "install" /\ MayWrLock
  /\ LET c == callers[p]
         r1 == IF c.workerShare1 # Null
               THEN installWorker(Registry, key1(c.share), c.workerShare1)
               ELSE Registry
         r2 == IF c.workerShare2 # Null
               THEN installUser(r1, key2(c.share), c.workerShare2)
               ELSE r1
     IN /\ heap' = Release(r2.heap, Range(r2.workerSet))
        /\ workerSet' = r2.workerSet
        /\ userWorkerCount' = r2.userWorkerCount
        /\ totalWorkerCount' = r2.totalWorkerCount
        /\ totalUserCount' = r2.totalUserCount
        /\ raced' = IF c.workerShare1 # Null
                    THEN [raced EXCEPT !.installs = @ + 1]
                    ELSE raced
  /\ callers' = [callers EXCEPT ![p] = CallerIdle]
  /\ UNCHANGED <<now, ticks, wsVars, poolWorker, rwlock, ing, http, msgs,
                 sweeps, queries, drops, mergeVars, loopVars>>

NextRace ==
  \E p \in Callers :
    \/ caller_call(p)
    \/ caller_find(p)
    \/ caller_key1(p)
    \/ caller_key2(p)
    \/ caller_install(p)

SpecRace == InitLoopSpec /\ [][NextRace]_vars

\* C17: when two callers race on the first insert of a key, the later
\* install replaces the earlier one and at most one sample is lost for each
\* replaced install: once all calls have returned, the shares missing from
\* the entry of the key are no more than the installs of that key but one.
C17_RaceLosesAtMostOne ==
  (\A p \in Callers : callers[p].pc = "idle") /\ raced.installs >= 1 =>
    raced.processed - AcceptCountOf(WorkerKey(1, W1)) <= raced.installs - 1

====
